---- MODULE Spec2Model ----
(***************************************************************************)
(* Model of som-monitor (src/src/index.ts): a shop catalog is scraped,     *)
(* image URLs are relocated to a CDN, the snapshot is diffed against the   *)
(* baseline file, the differences are posted to Slack in chunks, and the   *)
(* baseline file is rewritten.                                             *)
(*                                                                         *)
(* JavaScript values are modelled as tagged tuples so that `typeof` and    *)
(* `undefined` are observable; an item is a function from the keys that    *)
(* are present on the object to such values.                               *)
(*                                                                         *)
(* An action is one stretch of run() between two awaits.  The collaborators*)
(* (scrape, the CDN, Slack) answer nondeterministically.  BLOCKS_LOG_PATH  *)
(* is taken as unset, and the file system calls do not fail.               *)
(*                                                                         *)
(* Spec takes the single-writer design: the start-up run has returned when *)
(* the Cron job fires, so at most one run is in flight.  A process that    *)
(* has ended is started again by its supervisor.  SpecOverlap drops that  *)
(* assumption, SpecLive adds that awaited calls settle, and SpecDiff,      *)
(* SpecClassify, SpecSend, SpecRelocate and SpecRetry apply one part of    *)
(* the program to a larger set of inputs.                                  *)
(***************************************************************************)
EXTENDS Integers, Sequences, FiniteSets, TLC

(***************************************************************************)
(* Bounds of the model.                                                    *)
(***************************************************************************)
MaxId == 2          \* item ids 1..MaxId in the snapshots of a run
RenderLen == 30     \* blocks rendered for one delta entry
MaxStock == 3       \* stock quantities 0..MaxStock given to the classifier
MaxEntries == 5     \* delta entries of a run placed before the chunk loop
MaxRetries == 4     \* attempt limits 1..MaxRetries given to retry() on its own
MaxImages == 3      \* item ids 1..MaxImages in the snapshots given to the relocation

(***************************************************************************)
(* Program constants.                                                      *)
(***************************************************************************)
SLACK_BLOCK_LIMIT == 50
retries == 3

(***************************************************************************)
(* JavaScript values.                                                      *)
(***************************************************************************)
Undefined == <<"undefined">>
Missing == <<"missing">>            \* marks a key that is not on the object
Num(n) == <<"number", n>>
Str(s) == <<"string", s>>
TypeOf(v) == v[1]

\* an object with the keys of f that are not marked Missing
Obj(f) == [k \in {kk \in DOMAIN f : f[kk] # Missing} |-> f[k]]

\* (obj as any)[key]: undefined when the key is absent
Get(obj, key) == IF key \in DOMAIN obj THEN obj[key] ELSE Undefined

\* truthiness of a value, as `if (item.imageUrl)` tests it
Truthy(v) ==
    CASE TypeOf(v) = "undefined" -> FALSE
      [] TypeOf(v) = "string" -> v[2] # ""
      [] TypeOf(v) = "number" -> v[2] # 0
      [] OTHER -> TRUE

Abs(n) == IF n < 0 THEN -n ELSE n

(***************************************************************************)
(* Bun.deepEquals in its default, non-strict mode: a key whose value is    *)
(* undefined equals an absent key; arrays compare by length and position.  *)
(***************************************************************************)
\* the strict mode, in which an undefined value differs from an absent key
deepEqualsItemStrict(a, b) == a = b

deepEqualsItem(a, b) ==
    \A k \in (DOMAIN a) \cup (DOMAIN b) : Get(a, k) = Get(b, k)

deepEquals(xs, ys) ==
    /\ Len(xs) = Len(ys)
    /\ \A i \in 1..Len(xs) : deepEqualsItem(xs[i], ys[i])

(***************************************************************************)
(* JSON.stringify drops the keys whose value is undefined; JSON.parse and  *)
(* the ShopItems validation give back the stored objects.                  *)
(***************************************************************************)
StringifyItem(it) == [k \in {kk \in DOMAIN it : it[kk] # Undefined} |-> it[k]]

Stringify(items) == [i \in 1..Len(items) |-> StringifyItem(items[i])]

NoFile == [exists |-> FALSE, valid |-> FALSE, items |-> <<>>]
MalformedFile == [exists |-> TRUE, valid |-> FALSE, items |-> <<>>]
JsonFile(items) == [exists |-> TRUE, valid |-> TRUE, items |-> Stringify(items)]

(***************************************************************************)
(* shouldNotifyUsergroup: some key of the NEW item, other than title and   *)
(* description, carries an important change.                               *)
(***************************************************************************)
ignoreKeys == {"title", "description"}

\* the tolerance of line 80 written with >= instead of >
importantKeyNoTolerance(oldItem, newItem, key) ==
    LET oldVal == Get(oldItem, key)
        newVal == Get(newItem, key)
    IN  IF key \in ignoreKeys THEN FALSE
        ELSE IF /\ key = "stockRemaining"
                /\ TypeOf(oldVal) = "number"
                /\ TypeOf(newVal) = "number"
             THEN Abs(oldVal[2] - newVal[2]) >= 1
             ELSE oldVal # newVal

importantKey(oldItem, newItem, key) ==
    LET oldVal == Get(oldItem, key)
        newVal == Get(newItem, key)
    IN  IF key \in ignoreKeys THEN FALSE
        ELSE IF /\ key = "stockRemaining"
                /\ TypeOf(oldVal) = "number"
                /\ TypeOf(newVal) = "number"
             THEN Abs(oldVal[2] - newVal[2]) > 1
             ELSE oldVal # newVal

shouldNotifyUsergroup(oldItem, newItem) ==
    \E key \in DOMAIN newItem : importantKey(oldItem, newItem, key)

(***************************************************************************)
(* The diff of run(): pass 1 walks currentItems, pass 2 walks oldItems.    *)
(* The accumulator holds `updates` (one delta entry per pushed render) and *)
(* `shouldPingUsergroup`.                                                  *)
(***************************************************************************)
\* Array.prototype.find on item.id === id: the first match, or none
FindIndex(items, id) ==
    LET hits == {j \in 1..Len(items) : items[j]["id"] = id}
    IN  IF hits = {} THEN 0 ELSE CHOOSE j \in hits : \A h \in hits : j <= h

NewEntry(item) == [kind |-> "New", oldItem |-> item, newItem |-> item]
UpdatedEntry(o, n) == [kind |-> "Updated", oldItem |-> o, newItem |-> n]
DeletedEntry(item) == [kind |-> "Deleted", oldItem |-> item, newItem |-> item]

EmptyDiff == [updates |-> <<>>, shouldPingUsergroup |-> FALSE]

RECURSIVE Pass1(_, _, _, _)
Pass1(oldItems, currentItems, i, acc) ==
    IF i > Len(currentItems) THEN acc
    ELSE LET currentItem == currentItems[i]
             j == FindIndex(oldItems, currentItem["id"])
         IN  IF j = 0
             THEN Pass1(oldItems, currentItems, i + 1,
                        [updates |-> Append(acc.updates, NewEntry(currentItem)),
                         shouldPingUsergroup |-> TRUE])
             ELSE IF deepEqualsItem(oldItems[j], currentItem)
             THEN Pass1(oldItems, currentItems, i + 1, acc)
             ELSE Pass1(oldItems, currentItems, i + 1,
                        [updates |-> Append(acc.updates,
                                            UpdatedEntry(oldItems[j], currentItem)),
                         shouldPingUsergroup |->
                             \/ acc.shouldPingUsergroup
                             \/ shouldNotifyUsergroup(oldItems[j], currentItem)])

RECURSIVE Pass2(_, _, _, _)
Pass2(oldItems, currentItems, i, acc) ==
    IF i > Len(oldItems) THEN acc
    ELSE LET oldItem == oldItems[i]
         IN  IF FindIndex(currentItems, oldItem["id"]) = 0
             THEN Pass2(oldItems, currentItems, i + 1,
                        [updates |-> Append(acc.updates, DeletedEntry(oldItem)),
                         shouldPingUsergroup |-> TRUE])
             ELSE Pass2(oldItems, currentItems, i + 1, acc)

\* the two loops in the other order
DiffDeletedFirst(oldItems, currentItems) ==
    Pass1(oldItems, currentItems, 1, Pass2(oldItems, currentItems, 1, EmptyDiff))

\* the second loop without its line 150
DiffNoPingOnDelete(oldItems, currentItems) ==
    LET p1 == Pass1(oldItems, currentItems, 1, EmptyDiff)
    IN  [updates |-> Pass2(oldItems, currentItems, 1, p1).updates,
         shouldPingUsergroup |-> p1.shouldPingUsergroup]

Diff(oldItems, currentItems) ==
    Pass2(oldItems, currentItems, 1, Pass1(oldItems, currentItems, 1, EmptyDiff))

(***************************************************************************)
(* Rendering (./blocks, not part of the sources at hand): every delta      *)
(* entry renders to RenderLen blocks that name the entry and the position. *)
(***************************************************************************)
Render(entry) ==
    [n \in 1..RenderLen |-> <<entry.kind, entry.newItem["id"][2], n>>]

\* updates.flat()
RECURSIVE Flat(_)
Flat(entries) ==
    IF entries = <<>> THEN <<>>
    ELSE Render(Head(entries)) \o Flat(Tail(entries))

Min(a, b) == IF a <= b THEN a ELSE b

\* as Slice, but the end index is taken as inclusive
SliceInclusive(blocks, i) ==
    SubSeq(blocks, i + 1, Min(i + SLACK_BLOCK_LIMIT + 1, Len(blocks)))

\* allBlocks.slice(i, i + SLACK_BLOCK_LIMIT), i counted from 0
Slice(blocks, i) ==
    SubSeq(blocks, i + 1, Min(i + SLACK_BLOCK_LIMIT, Len(blocks)))

(***************************************************************************)
(* Asset relocation.  A source URL is "shop/<name>"; the CDN answers a     *)
(* batch with one deployed URL per position, "<host>/<name>", on the host  *)
(* that served the request.                                                *)
(***************************************************************************)
HasImage(item) == Truthy(Get(item, "imageUrl"))

\* imagesToUpload: the image URLs of the items that carry one, in order
RECURSIVE imagesToUpload(_)
imagesToUpload(items) ==
    IF items = <<>> THEN <<>>
    ELSE (IF HasImage(Head(items)) THEN <<Head(items)["imageUrl"]>> ELSE <<>>)
         \o imagesToUpload(Tail(items))

\* as itemToImageIndex, but the position is counted from the end of the batch
itemToImageIndexFromEnd(items, k) ==
    Cardinality({j \in k..Len(items) : HasImage(items[j])})

\* itemToImageIndex: the batch position (from 1) of item k's image
itemToImageIndex(items, k) == Cardinality({j \in 1..k : HasImage(items[j])})

\* the loop of line 65 left out
RelocatedNothing(items, uploaded) == items

\* item.imageUrl = uploaded[idx].deployedUrl for the items in the map
Relocated(items, uploaded) ==
    [k \in 1..Len(items) |->
        IF HasImage(items[k])
        THEN [items[k] EXCEPT !["imageUrl"] = uploaded[itemToImageIndex(items, k)]]
        ELSE items[k]]

CdnHosts == {"cdn-a", "cdn-b"}

\* the deployed URL the CDN host v gives for a source URL
DeployedUrl(url, v) == Str(v \o "/" \o url[2])

\* the `files` of a well-formed answer to the batch `urls`
CdnFiles(urls, v) == [n \in 1..Len(urls) |-> DeployedUrl(urls[n], v)]

(***************************************************************************)
(* The catalogs the storefront can show to a run: item 1 has a stock       *)
(* quantity that moves by one, the other items carry an image and an       *)
(* explicit undefined stock quantity.                                      *)
(***************************************************************************)
StickerItem(stock) ==
    Obj([id |-> Num(1), title |-> Str("Sticker"), description |-> Str("d"),
         stockRemaining |-> Num(stock), imageUrl |-> Missing])

ImageItem(n) ==
    Obj([id |-> Num(n), title |-> Str("Item" \o ToString(n)),
         description |-> Str("d"), stockRemaining |-> Undefined,
         imageUrl |-> Str("shop/img" \o ToString(n))])

ItemsRun == {StickerItem(4), StickerItem(5)} \cup {ImageItem(n) : n \in 2..MaxId}

UniqueIds(items) ==
    \A a, b \in 1..Len(items) : items[a]["id"] = items[b]["id"] => a = b

SeqsUpTo(S, n) == UNION {[1..k -> S] : k \in 0..n}

Snapshots == {c \in SeqsUpTo(ItemsRun, MaxId) : UniqueIds(c)}

(***************************************************************************)
(* State.  Two invocations of run() exist in a process: the one made at    *)
(* start-up and the one the Cron job makes.                                *)
(***************************************************************************)
Runs == {"immediate", "cron"}

VARIABLES
    file,                \* the baseline file at OLD_ITEMS_PATH
    pc,                  \* pc[r]: where run r stands
    attempt,             \* attempt[r]: the loop index i of the retry() in progress
    currentItems,        \* currentItems[r]
    oldItems,            \* oldItems[r]
    found,               \* found[r]: what exists(OLD_ITEMS_PATH) told run r
    updates,             \* updates[r]: the delta entries, in push order
    shouldPingUsergroup, \* shouldPingUsergroup[r]
    offset,              \* offset[r]: the index i of the chunk loop
    sent,                \* sent[r]: the postMessage calls that were answered
    writes,              \* writes[r]: the baseline writes run r has made
    error,               \* error[r]: what the catch block of run r received
    uploads,             \* uploads[r]: the URL lists run r handed to uploadToCdn
    rt,                  \* a call of retry(fn, n) taken on its own
    prev                 \* what is remembered of the run that ended last

vars == <<file, pc, attempt, currentItems, oldItems, found, updates,
          shouldPingUsergroup, offset, sent, writes, error, uploads, rt, prev>>

NoError == <<"none", 0>>

\* no call of retry() is being looked at on its own
NoRetry == [state |-> "none"]
NoPrev == [outcome |-> "none", relocated |-> FALSE, cur |-> <<>>,
           undelivered |-> {}, file |-> NoFile]

Fresh(v) == [r \in Runs |-> v]

\* the state of a process that has just evaluated lines 216-217
ProcessStart ==
    /\ pc = [r \in Runs |-> IF r = "immediate" THEN "scrape" ELSE "waiting"]
    /\ attempt = Fresh(0)
    /\ currentItems = Fresh(<<>>)
    /\ oldItems = Fresh(<<>>)
    /\ found = Fresh("unknown")
    /\ updates = Fresh(<<>>)
    /\ shouldPingUsergroup = Fresh(FALSE)
    /\ offset = Fresh(0)
    /\ sent = Fresh(<<>>)
    /\ writes = Fresh(0)
    /\ error = Fresh(NoError)
    /\ uploads = Fresh(<<>>)

Init ==
    /\ file \in {NoFile, MalformedFile}
    /\ prev = NoPrev
    /\ rt = NoRetry
    /\ ProcessStart

\* as RetryCatch, but the loop index wraps round and the loop never ends
RetryCatchNoLimit(r, what) ==
    /\ attempt' = [attempt EXCEPT ![r] = (@ + 1) % retries]
    /\ UNCHANGED <<pc, error>>

(***************************************************************************)
(* retry(): attempt i of fn threw.  While i < retries - 1 the loop warns,  *)
(* waits and goes round again; after the last attempt it throws that       *)
(* attempt's error, which run() catches: process.exit(1).                  *)
(***************************************************************************)
RetryCatch(r, what) ==
    /\ attempt' = [attempt EXCEPT ![r] = @ + 1]
    /\ IF attempt[r] < retries - 1
       THEN UNCHANGED <<pc, error>>
       ELSE /\ pc' = [pc EXCEPT ![r] = "failed"]
            /\ error' = [error EXCEPT ![r] = <<what, attempt[r] + 1>>]

\* an error thrown outside retry(), caught at line 209
Throw(r, what) ==
    /\ pc' = [pc EXCEPT ![r] = "failed"]
    /\ error' = [error EXCEPT ![r] = <<what, 0>>]

\* run r stands at `where` in a process that is alive
At(r, where) == pc[r] = where /\ \A q \in Runs : pc[q] # "failed"

\* line 173
allBlocks(r) == Flat(updates[r])

\* line 94: an attempt of scrape() throws
ScrapeThrows(r) ==
    /\ At(r, "scrape")
    /\ RetryCatch(r, "scrape")
    /\ UNCHANGED <<file, currentItems, oldItems, found, updates,
                   shouldPingUsergroup, offset, sent, writes, prev,
                   uploads, rt>>

\* lines 94-95 and 53-63: scrape() returns the catalog; the images are collected
ScrapeReturnsFrom(r, catalogs) ==
    /\ At(r, "scrape")
    /\ \E c \in catalogs :
          /\ currentItems' = [currentItems EXCEPT ![r] = c]
          /\ pc' = [pc EXCEPT ![r] =
                      IF Len(imagesToUpload(c)) > 0 THEN "cdn" ELSE "exists"]
          /\ uploads' = [uploads EXCEPT ![r] =
                      IF Len(imagesToUpload(c)) > 0 THEN <<imagesToUpload(c)>>
                      ELSE <<>>]
    /\ attempt' = [attempt EXCEPT ![r] = 0]
    /\ UNCHANGED <<file, oldItems, found, updates, shouldPingUsergroup,
                   offset, sent, writes, error, prev, rt>>

ScrapeReturns(r) == ScrapeReturnsFrom(r, Snapshots)

\* line 230: an attempt of the fetch to the CDN throws
CdnThrows(r) ==
    /\ At(r, "cdn")
    /\ RetryCatch(r, "cdn")
    /\ UNCHANGED <<file, currentItems, oldItems, found, updates,
                   shouldPingUsergroup, offset, sent, writes, prev,
                   uploads, rt>>

\* lines 241-244: the CDN answers with a status that is not ok
CdnNotOk(r) ==
    /\ At(r, "cdn")
    /\ Throw(r, "cdn-not-ok")
    /\ UNCHANGED <<file, attempt, currentItems, oldItems, found, updates,
                   shouldPingUsergroup, offset, sent, writes, prev,
                   uploads, rt>>

\* lines 246-248 and 65-66: the CDN answers with fewer files than URLs were sent
CdnShort(r) ==
    /\ At(r, "cdn")
    /\ Throw(r, "cdn-short")
    /\ UNCHANGED <<file, attempt, currentItems, oldItems, found, updates,
                   shouldPingUsergroup, offset, sent, writes, prev,
                   uploads, rt>>

\* lines 246-248 and 65-67: the CDN answers with one file per URL; items are rewritten
CdnReturns(r) ==
    /\ At(r, "cdn")
    /\ \E v \in CdnHosts :
          currentItems' = [currentItems EXCEPT ![r] =
              Relocated(@, CdnFiles(imagesToUpload(@), v))]
    /\ pc' = [pc EXCEPT ![r] = "exists"]
    /\ attempt' = [attempt EXCEPT ![r] = 0]
    /\ UNCHANGED <<file, oldItems, found, updates, shouldPingUsergroup,
                   offset, sent, writes, error, prev,
                   uploads, rt>>

\* line 97: exists(OLD_ITEMS_PATH)
Exists(r) ==
    /\ At(r, "exists")
    /\ found' = [found EXCEPT ![r] = IF file.exists THEN "present" ELSE "absent"]
    /\ pc' = [pc EXCEPT ![r] = IF file.exists THEN "read" ELSE "bootstrap"]
    /\ UNCHANGED <<file, attempt, currentItems, oldItems, updates,
                   shouldPingUsergroup, offset, sent, writes, error, prev,
                   uploads, rt>>

\* writeItems (lines 219-221)
writeItems(r) ==
    /\ file' = JsonFile(currentItems[r])
    /\ writes' = [writes EXCEPT ![r] = @ + 1]

\* lines 98-102: the first sync writes the baseline and returns
Bootstrap(r) ==
    /\ At(r, "bootstrap")
    /\ writeItems(r)
    /\ pc' = [pc EXCEPT ![r] = "done"]
    /\ UNCHANGED <<attempt, currentItems, oldItems, found, updates,
                   shouldPingUsergroup, offset, sent, error, prev,
                   uploads, rt>>

\* lines 105-110: the baseline file does not parse or validate
ReadMalformed(r) ==
    /\ At(r, "read")
    /\ ~file.valid
    /\ Throw(r, "baseline-malformed")
    /\ UNCHANGED <<file, attempt, currentItems, oldItems, found, updates,
                   shouldPingUsergroup, offset, sent, writes, prev,
                   uploads, rt>>

\* lines 105-115: the baseline equals the current snapshot; return
ReadNoUpdates(r) ==
    /\ At(r, "read")
    /\ file.valid
    /\ deepEquals(file.items, currentItems[r])
    /\ oldItems' = [oldItems EXCEPT ![r] = file.items]
    /\ pc' = [pc EXCEPT ![r] = "done"]
    /\ UNCHANGED <<file, attempt, currentItems, found, updates,
                   shouldPingUsergroup, offset, sent, writes, error, prev,
                   uploads, rt>>

\* lines 105-154: the baseline differs; the two passes build the delta and
\* writeItems is called
ReadAndDiff(r) ==
    /\ At(r, "read")
    /\ file.valid
    /\ ~deepEquals(file.items, currentItems[r])
    /\ oldItems' = [oldItems EXCEPT ![r] = file.items]
    /\ LET d == Diff(file.items, currentItems[r])
       IN  /\ updates' = [updates EXCEPT ![r] = d.updates]
           /\ shouldPingUsergroup' =
                  [shouldPingUsergroup EXCEPT ![r] = d.shouldPingUsergroup]
    /\ pc' = [pc EXCEPT ![r] = "write"]
    /\ UNCHANGED <<file, attempt, currentItems, found, offset, sent, writes,
                   error, prev,
                   uploads, rt>>

\* lines 154-174: the baseline is written; no block was rendered: throw
WriteNoBlocks(r) ==
    /\ At(r, "write")
    /\ Len(allBlocks(r)) = 0
    /\ writeItems(r)
    /\ Throw(r, "no-blocks")
    /\ UNCHANGED <<attempt, currentItems, oldItems, found, updates,
                   shouldPingUsergroup, offset, sent, prev,
                   uploads, rt>>

\* the chunk loop starts without line 154
SendWithoutWrite(r) ==
    /\ At(r, "write")
    /\ Len(allBlocks(r)) > 0
    /\ offset' = [offset EXCEPT ![r] = 0]
    /\ attempt' = [attempt EXCEPT ![r] = 0]
    /\ pc' = [pc EXCEPT ![r] = "send"]
    /\ UNCHANGED <<file, writes, currentItems, oldItems, found, updates,
                   shouldPingUsergroup, sent, error, prev,
                   uploads, rt>>

\* lines 154-178: the baseline is written; the chunk loop starts
WriteThenSend(r) ==
    /\ At(r, "write")
    /\ Len(allBlocks(r)) > 0
    /\ writeItems(r)
    /\ offset' = [offset EXCEPT ![r] = 0]
    /\ attempt' = [attempt EXCEPT ![r] = 0]
    /\ pc' = [pc EXCEPT ![r] = "send"]
    /\ UNCHANGED <<currentItems, oldItems, found, updates,
                   shouldPingUsergroup, sent, error, prev,
                   uploads, rt>>

\* the chunk that the loop of line 176 is sending
chunk(r) == Slice(allBlocks(r), offset[r])

ChunkMessage(r, ok) == [kind |-> "chunk", blocks |-> chunk(r), ok |-> ok]
PingMessage(ok) == [kind |-> "ping", blocks |-> <<<<"UsergroupPing", 0, 1>>>>, ok |-> ok]

\* line 178: an attempt of chat.postMessage for the chunk throws
SendThrows(r) ==
    /\ At(r, "send")
    /\ RetryCatch(r, "send")
    /\ UNCHANGED <<file, currentItems, oldItems, found, updates,
                   shouldPingUsergroup, offset, sent, writes, prev,
                   uploads, rt>>

\* lines 178-191: the call resolves with ok false: throw
SendNotOk(r) ==
    /\ At(r, "send")
    /\ sent' = [sent EXCEPT ![r] = Append(@, ChunkMessage(r, FALSE))]
    /\ Throw(r, "send-not-ok")
    /\ UNCHANGED <<file, attempt, currentItems, oldItems, found, updates,
                   shouldPingUsergroup, offset, writes, prev,
                   uploads, rt>>

\* as SendOk, but the next chunk goes on with the attempts already used
SendOkSharedBudget(r) ==
    /\ At(r, "send")
    /\ sent' = [sent EXCEPT ![r] = Append(@, ChunkMessage(r, TRUE))]
    /\ offset' = [offset EXCEPT ![r] = @ + SLACK_BLOCK_LIMIT]
    /\ pc' = [pc EXCEPT ![r] =
                IF offset[r] + SLACK_BLOCK_LIMIT < Len(allBlocks(r)) THEN "send"
                ELSE IF shouldPingUsergroup[r] THEN "ping"
                ELSE "done"]
    /\ UNCHANGED <<file, attempt, currentItems, oldItems, found, updates,
                   shouldPingUsergroup, writes, error, prev,
                   uploads, rt>>

\* as SendOk, but the ping follows the last chunk whatever the flag says
SendOkAlwaysPing(r) ==
    /\ At(r, "send")
    /\ sent' = [sent EXCEPT ![r] = Append(@, ChunkMessage(r, TRUE))]
    /\ offset' = [offset EXCEPT ![r] = @ + SLACK_BLOCK_LIMIT]
    /\ attempt' = [attempt EXCEPT ![r] = 0]
    /\ pc' = [pc EXCEPT ![r] =
                IF offset[r] + SLACK_BLOCK_LIMIT < Len(allBlocks(r)) THEN "send"
                ELSE "ping"]
    /\ UNCHANGED <<file, currentItems, oldItems, found, updates,
                   shouldPingUsergroup, writes, error, prev,
                   uploads, rt>>

\* lines 176-194: the call resolves with ok true: next chunk, or the loop
\* ends and the ping is sent when shouldPingUsergroup is set
SendOk(r) ==
    /\ At(r, "send")
    /\ sent' = [sent EXCEPT ![r] = Append(@, ChunkMessage(r, TRUE))]
    /\ offset' = [offset EXCEPT ![r] = @ + SLACK_BLOCK_LIMIT]
    /\ attempt' = [attempt EXCEPT ![r] = 0]
    /\ pc' = [pc EXCEPT ![r] =
                IF offset[r] + SLACK_BLOCK_LIMIT < Len(allBlocks(r)) THEN "send"
                ELSE IF shouldPingUsergroup[r] THEN "ping"
                ELSE "done"]
    /\ UNCHANGED <<file, currentItems, oldItems, found, updates,
                   shouldPingUsergroup, writes, error, prev,
                   uploads, rt>>

\* line 195: an attempt of chat.postMessage for the ping throws
PingThrows(r) ==
    /\ At(r, "ping")
    /\ RetryCatch(r, "ping")
    /\ UNCHANGED <<file, currentItems, oldItems, found, updates,
                   shouldPingUsergroup, offset, sent, writes, prev,
                   uploads, rt>>

\* lines 195-208: the call resolves; its result is not looked at
PingResolves(r) ==
    /\ At(r, "ping")
    /\ \E ok \in BOOLEAN :
          sent' = [sent EXCEPT ![r] = Append(@, PingMessage(ok))]
    /\ pc' = [pc EXCEPT ![r] = "done"]
    /\ UNCHANGED <<file, attempt, currentItems, oldItems, found, updates,
                   shouldPingUsergroup, offset, writes, error, prev,
                   uploads, rt>>

(***************************************************************************)
(* What is remembered of a run once the next one starts: its outcome, the  *)
(* snapshot it held after relocation, the ids whose blocks Slack did not   *)
(* accept when a chunk failed, and the baseline file it left.              *)
(***************************************************************************)
Range(f) == {f[x] : x \in DOMAIN f}

Delivered(r) ==
    UNION {Range(m.blocks) : m \in {x \in Range(sent[r]) : x.kind = "chunk" /\ x.ok}}

Undelivered(r) == {b[2] : b \in Range(allBlocks(r)) \ Delivered(r)}

ChunkFailed(r) == pc[r] = "failed" /\ error[r][1] \in {"send", "send-not-ok"}

Summary(r) ==
    [outcome |-> pc[r],
     relocated |-> found[r] # "unknown",
     cur |-> IF found[r] # "unknown" THEN currentItems[r] ELSE <<>>,
     undelivered |-> IF ChunkFailed(r) THEN Undelivered(r) ELSE {},
     file |-> file]

\* the locals of every run are those of a run not yet started
ResetLocals ==
    /\ attempt' = Fresh(0)
    /\ currentItems' = Fresh(<<>>)
    /\ oldItems' = Fresh(<<>>)
    /\ found' = Fresh("unknown")
    /\ updates' = Fresh(<<>>)
    /\ shouldPingUsergroup' = Fresh(FALSE)
    /\ offset' = Fresh(0)
    /\ sent' = Fresh(<<>>)
    /\ writes' = Fresh(0)
    /\ error' = Fresh(NoError)
    /\ uploads' = Fresh(<<>>)

\* line 216: the Cron job fires (once: maxRuns is 1) and calls run().
\* The start-up run has returned by then (single-writer design).
CronTick ==
    /\ pc["cron"] = "waiting"
    /\ pc["immediate"] = "done"
    /\ prev' = Summary("immediate")
    /\ pc' = [pc EXCEPT !["cron"] = "scrape"]
    /\ ResetLocals
    /\ UNCHANGED <<file, rt>>

\* the process has ended: process.exit(1) at line 212, or nothing is left
\* to run after the Cron job's only run
ProcessEnded == (\E r \in Runs : pc[r] = "failed") \/ pc["cron"] = "done"

LastRun == IF pc["cron"] \in {"done", "failed"} THEN "cron" ELSE "immediate"

\* the process is started again: lines 216-217
Restart ==
    /\ ProcessEnded
    /\ prev' = Summary(LastRun)
    /\ pc' = [r \in Runs |-> IF r = "immediate" THEN "scrape" ELSE "waiting"]
    /\ ResetLocals
    /\ UNCHANGED <<file, rt>>

Next ==
    \/ \E r \in Runs : ScrapeThrows(r)
    \/ \E r \in Runs : ScrapeReturns(r)
    \/ \E r \in Runs : CdnThrows(r)
    \/ \E r \in Runs : CdnNotOk(r)
    \/ \E r \in Runs : CdnShort(r)
    \/ \E r \in Runs : CdnReturns(r)
    \/ \E r \in Runs : Exists(r)
    \/ \E r \in Runs : Bootstrap(r)
    \/ \E r \in Runs : ReadMalformed(r)
    \/ \E r \in Runs : ReadNoUpdates(r)
    \/ \E r \in Runs : ReadAndDiff(r)
    \/ \E r \in Runs : WriteNoBlocks(r)
    \/ \E r \in Runs : WriteThenSend(r)
    \/ \E r \in Runs : SendThrows(r)
    \/ \E r \in Runs : SendNotOk(r)
    \/ \E r \in Runs : SendOk(r)
    \/ \E r \in Runs : PingThrows(r)
    \/ \E r \in Runs : PingResolves(r)
    \/ CronTick
    \/ Restart

Spec == Init /\ [][Next]_vars

(***************************************************************************)
(* SpecLive follows the two runs of one process, from any baseline file   *)
(* that earlier processes can have left, with the assumption that every    *)
(* call a run awaits settles: a run that can take a step takes one.  Which *)
(* one -- the call resolves or rejects -- stays open, so a collaborator    *)
(* may throw at every attempt.                                             *)
(***************************************************************************)
RunStep(r) ==
    \/ ScrapeThrows(r) \/ ScrapeReturns(r)
    \/ CdnThrows(r) \/ CdnNotOk(r) \/ CdnShort(r) \/ CdnReturns(r)
    \/ Exists(r) \/ Bootstrap(r)
    \/ ReadMalformed(r) \/ ReadNoUpdates(r) \/ ReadAndDiff(r)
    \/ WriteNoBlocks(r) \/ WriteThenSend(r)
    \/ SendThrows(r) \/ SendNotOk(r) \/ SendOk(r)
    \/ PingThrows(r) \/ PingResolves(r)

BaselinesLive ==
    {JsonFile(Relocated(c, CdnFiles(imagesToUpload(c), "cdn-a"))) : c \in Snapshots}

InitLive ==
    /\ file \in {NoFile, MalformedFile} \cup BaselinesLive
    /\ prev = NoPrev
    /\ rt = NoRetry
    /\ ProcessStart

NextLive ==
    \/ \E r \in Runs : ScrapeThrows(r)
    \/ \E r \in Runs : ScrapeReturns(r)
    \/ \E r \in Runs : CdnThrows(r)
    \/ \E r \in Runs : CdnNotOk(r)
    \/ \E r \in Runs : CdnShort(r)
    \/ \E r \in Runs : CdnReturns(r)
    \/ \E r \in Runs : Exists(r)
    \/ \E r \in Runs : Bootstrap(r)
    \/ \E r \in Runs : ReadMalformed(r)
    \/ \E r \in Runs : ReadNoUpdates(r)
    \/ \E r \in Runs : ReadAndDiff(r)
    \/ \E r \in Runs : WriteNoBlocks(r)
    \/ \E r \in Runs : WriteThenSend(r)
    \/ \E r \in Runs : SendThrows(r)
    \/ \E r \in Runs : SendNotOk(r)
    \/ \E r \in Runs : SendOk(r)
    \/ \E r \in Runs : PingThrows(r)
    \/ \E r \in Runs : PingResolves(r)
    \/ CronTick

SpecLive ==
    /\ InitLive
    /\ [][NextLive]_vars
    /\ \A r \in Runs : WF_vars(RunStep(r))

(***************************************************************************)
(* SpecDiff and SpecClassify apply lines 105-152 of run() to every pair of *)
(* a baseline file and a current snapshot drawn from two larger sets: the  *)
(* run stands before readFile, with the snapshot already relocated.        *)
(***************************************************************************)
StockItem(n, stock) ==
    Obj([id |-> Num(n), title |-> Str("Item" \o ToString(n)),
         description |-> Str("d"), stockRemaining |-> Num(stock),
         imageUrl |-> Missing])

ItemsDiff == {StockItem(n, stock) : n \in 1..MaxId, stock \in {4, 5, 7}}

SnapshotsDiff == {c \in SeqsUpTo(ItemsDiff, MaxId) : UniqueIds(c)}

ItemsClassify ==
    {Obj([id |-> Num(1), title |-> Str(t), description |-> Str(d), price |-> Num(p),
          stockRemaining |-> s, imageUrl |-> u]) :
        t \in {"Mug", "Cup"}, d \in {"d", "e"}, p \in {1, 2},
        s \in {Missing, Undefined} \cup {Num(q) : q \in 0..MaxStock},
        u \in {Missing, Str("cdn-a/u"), Str("cdn-a/v")}}

AtRead(olds, currents) ==
    /\ file \in {JsonFile(b) : b \in olds}
    /\ currentItems \in
          {[r \in Runs |-> IF r = "immediate" THEN c ELSE <<>>] : c \in currents}
    /\ pc = [r \in Runs |-> IF r = "immediate" THEN "read" ELSE "waiting"]
    /\ found = [r \in Runs |-> IF r = "immediate" THEN "present" ELSE "unknown"]
    /\ attempt = Fresh(0)
    /\ oldItems = Fresh(<<>>)
    /\ updates = Fresh(<<>>)
    /\ shouldPingUsergroup = Fresh(FALSE)
    /\ offset = Fresh(0)
    /\ sent = Fresh(<<>>)
    /\ writes = Fresh(0)
    /\ error = Fresh(NoError)
    /\ uploads = Fresh(<<>>)
    /\ rt = NoRetry
    /\ prev = NoPrev

InitDiff == AtRead(SnapshotsDiff, SnapshotsDiff)

InitClassify == AtRead({<<o>> : o \in ItemsClassify}, {<<n>> : n \in ItemsClassify})

NextDiff ==
    \/ ReadNoUpdates("immediate")
    \/ ReadAndDiff("immediate")

SpecDiff == InitDiff /\ [][NextDiff]_vars

SpecClassify == InitClassify /\ [][NextDiff]_vars

(***************************************************************************)
(* SpecSend applies lines 173-208 of run() to delta lists of up to         *)
(* MaxEntries entries: the run has written the baseline and stands before  *)
(* the first postMessage of the chunk loop.                                *)
(***************************************************************************)
EntriesSend(m, kind) ==
    [k \in 1..m |-> IF kind = "New" THEN NewEntry(StockItem(k, 4))
                                    ELSE DeletedEntry(StockItem(k, 4))]

UpdatesSend == {EntriesSend(m, kind) : m \in 1..MaxEntries, kind \in {"New", "Deleted"}}

AtSend(deltas) ==
    /\ file = JsonFile(<<>>)
    /\ updates \in {[r \in Runs |-> IF r = "immediate" THEN u ELSE <<>>] : u \in deltas}
    /\ shouldPingUsergroup \in
          {[r \in Runs |-> r = "immediate" /\ b] : b \in BOOLEAN}
    /\ pc = [r \in Runs |-> IF r = "immediate" THEN "send" ELSE "waiting"]
    /\ found = [r \in Runs |-> IF r = "immediate" THEN "present" ELSE "unknown"]
    /\ writes = [r \in Runs |-> IF r = "immediate" THEN 1 ELSE 0]
    /\ attempt = Fresh(0)
    /\ currentItems = Fresh(<<>>)
    /\ oldItems = Fresh(<<>>)
    /\ offset = Fresh(0)
    /\ sent = Fresh(<<>>)
    /\ error = Fresh(NoError)
    /\ uploads = Fresh(<<>>)
    /\ rt = NoRetry
    /\ prev = NoPrev

InitSend == AtSend(UpdatesSend)

NextSend ==
    \/ SendThrows("immediate")
    \/ SendNotOk("immediate")
    \/ SendOk("immediate")
    \/ PingThrows("immediate")
    \/ PingResolves("immediate")

SpecSend == InitSend /\ [][NextSend]_vars

(***************************************************************************)
(* SpecRetry takes one call retry(fn, retries) on its own (lines 32-50),   *)
(* for every attempt limit 1..MaxRetries and an fn whose every invocation  *)
(* throws some error or returns some value.  rt holds the loop index i,    *)
(* the outcomes of the invocations so far, the attempt numbers that        *)
(* console.warn reported, lastError, and how the call ended.               *)
(***************************************************************************)
FnErrors == {"ETIMEDOUT", "ECONNRESET", "ratelimited"}
FnValues == {"ok", "not-ok"}

RetryCall(n) ==
    [state |-> "loop", retries |-> n, i |-> 0, calls |-> <<>>, warns |-> <<>>,
     lastError |-> Undefined, result |-> Undefined]

\* line 40: fn() resolves with v, retry returns it
retryReturn(c, v) ==
    [c EXCEPT !.state = "returned",
              !.calls = Append(@, <<"return", v>>),
              !.result = Str(v)]

\* as retryCatch, but the error kept is the one of the first failed attempt
retryCatchFirstError(c, e) ==
    LET err == IF c.lastError = Undefined THEN Str(e) ELSE c.lastError
    IN  IF c.i < c.retries - 1
        THEN [c EXCEPT !.calls = Append(@, <<"throw", e>>),
                       !.lastError = err,
                       !.warns = Append(@, c.i + 1),
                       !.i = @ + 1]
        ELSE [c EXCEPT !.calls = Append(@, <<"throw", e>>),
                       !.lastError = err,
                       !.i = @ + 1,
                       !.state = "threw",
                       !.result = err]

\* lines 41-49: fn() throws e; warn and go round again, or, after the last
\* attempt, leave the loop and throw lastError
retryCatch(c, e) ==
    IF c.i < c.retries - 1
    THEN [c EXCEPT !.calls = Append(@, <<"throw", e>>),
                   !.lastError = Str(e),
                   !.warns = Append(@, c.i + 1),
                   !.i = @ + 1]
    ELSE [c EXCEPT !.calls = Append(@, <<"throw", e>>),
                   !.lastError = Str(e),
                   !.i = @ + 1,
                   !.state = "threw",
                   !.result = Str(e)]

RetryFnReturns ==
    /\ rt.state = "loop"
    /\ \E v \in FnValues : rt' = retryReturn(rt, v)
    /\ UNCHANGED <<file, pc, attempt, currentItems, oldItems, found, updates,
                   shouldPingUsergroup, offset, sent, writes, error, uploads, prev>>

RetryFnThrows ==
    /\ rt.state = "loop"
    /\ \E e \in FnErrors : rt' = retryCatch(rt, e)
    /\ UNCHANGED <<file, pc, attempt, currentItems, oldItems, found, updates,
                   shouldPingUsergroup, offset, sent, writes, error, uploads, prev>>

InitRetry ==
    /\ file = NoFile
    /\ prev = NoPrev
    /\ rt \in {RetryCall(n) : n \in 1..MaxRetries}
    /\ ProcessStart

NextRetry == RetryFnReturns \/ RetryFnThrows

SpecRetry == InitRetry /\ [][NextRetry]_vars

(***************************************************************************)
(* SpecRelocate applies lines 94-95 of run() to snapshots of up to         *)
(* MaxImages items, each with an image URL, with an empty one, or with     *)
(* none.                                                                   *)
(***************************************************************************)
PlainItem(n, image) ==
    Obj([id |-> Num(n), title |-> Str("Item" \o ToString(n)),
         description |-> Str("d"), stockRemaining |-> Num(4), imageUrl |-> image])

ItemsRelocate ==
    {PlainItem(n, image) :
        n \in 1..MaxImages,
        image \in {Missing, Str(""), Str("shop/a"), Str("shop/b")}}

SnapshotsRelocate == {c \in SeqsUpTo(ItemsRelocate, MaxImages) : UniqueIds(c)}

InitRelocate ==
    /\ file = NoFile
    /\ prev = NoPrev
    /\ rt = NoRetry
    /\ ProcessStart

NextRelocate ==
    \/ ScrapeThrows("immediate")
    \/ ScrapeReturnsFrom("immediate", SnapshotsRelocate)
    \/ CdnThrows("immediate")
    \/ CdnNotOk("immediate")
    \/ CdnShort("immediate")
    \/ CdnReturns("immediate")

SpecRelocate == InitRelocate /\ [][NextRelocate]_vars

(***************************************************************************)
(* SpecOverlap drops the single-writer assumption of Spec: the Cron job    *)
(* fires at the next minute boundary whether or not the start-up run has   *)
(* returned (line 216 sets no overrun protection), and the two runs then   *)
(* take their steps in any order.  The process is not started again.       *)
(***************************************************************************)
SnapshotsOverlap ==
    {<<StickerItem(4)>>, <<StickerItem(4), ImageItem(2)>>,
     <<ImageItem(2), StickerItem(4)>>}

CronFires ==
    /\ pc["cron"] = "waiting"
    /\ pc["immediate"] # "failed"
    /\ pc' = [pc EXCEPT !["cron"] = "scrape"]
    /\ UNCHANGED <<file, attempt, currentItems, oldItems, found, updates,
                   shouldPingUsergroup, offset, sent, writes, error, uploads,
                   rt, prev>>

NextOverlap ==
    \/ \E r \in Runs : ScrapeThrows(r)
    \/ \E r \in Runs : ScrapeReturnsFrom(r, SnapshotsOverlap)
    \/ \E r \in Runs : CdnThrows(r)
    \/ \E r \in Runs : CdnNotOk(r)
    \/ \E r \in Runs : CdnShort(r)
    \/ \E r \in Runs : CdnReturns(r)
    \/ \E r \in Runs : Exists(r)
    \/ \E r \in Runs : Bootstrap(r)
    \/ \E r \in Runs : ReadMalformed(r)
    \/ \E r \in Runs : ReadNoUpdates(r)
    \/ \E r \in Runs : ReadAndDiff(r)
    \/ \E r \in Runs : WriteNoBlocks(r)
    \/ \E r \in Runs : WriteThenSend(r)
    \/ \E r \in Runs : SendThrows(r)
    \/ \E r \in Runs : SendNotOk(r)
    \/ \E r \in Runs : SendOk(r)
    \/ \E r \in Runs : PingThrows(r)
    \/ \E r \in Runs : PingResolves(r)
    \/ CronFires

\* the baseline files that runs of earlier processes have left of them
BaselinesOverlap ==
    {JsonFile(Relocated(c, CdnFiles(imagesToUpload(c), "cdn-a"))) :
        c \in SnapshotsOverlap}

InitOverlap ==
    /\ file \in {NoFile, MalformedFile} \cup BaselinesOverlap
    /\ prev = NoPrev
    /\ rt = NoRetry
    /\ ProcessStart

SpecOverlap == InitOverlap /\ [][NextOverlap]_vars

(***************************************************************************)
(* Properties.                                                             *)
(***************************************************************************)
Keys == {"id", "title", "description", "price", "stockRemaining", "imageUrl"}

Ended(r) == pc[r] \in {"done", "failed"}

\* run r has read and validated a baseline and is past the diff
Loaded(r) ==
    \/ pc[r] \in {"write", "send", "ping"}
    \/ pc[r] = "done" /\ found[r] = "present"
    \/ pc[r] = "failed" /\ error[r][1] \in {"no-blocks", "send", "send-not-ok", "ping"}

\* run r is past the two passes of the diff
Diffed(r) == Loaded(r) /\ ~deepEquals(oldItems[r], currentItems[r])

HasId(items, id) == \E j \in 1..Len(items) : items[j]["id"] = id

\* the items of seq at the positions in S, in seq's order
RECURSIVE Pick(_, _, _)
Pick(seq, S, k) ==
    IF k > Len(seq) THEN <<>>
    ELSE (IF k \in S THEN <<seq[k]>> ELSE <<>>) \o Pick(seq, S, k + 1)

\* the entry the reference gives for position k of C, against B
RefEntry(B, C, k) ==
    IF ~HasId(B, C[k]["id"]) THEN NewEntry(C[k])
    ELSE UpdatedEntry(CHOOSE b \in Range(B) : b["id"] = C[k]["id"], C[k])

RefChanged(B, C) ==
    {k \in 1..Len(C) :
        \/ ~HasId(B, C[k]["id"])
        \/ \E b \in Range(B) : b["id"] = C[k]["id"] /\ ~deepEqualsItem(b, C[k])}

RefDelta(B, C) ==
    Pick([k \in 1..Len(C) |-> RefEntry(B, C, k)], RefChanged(B, C), 1)
    \o Pick([k \in 1..Len(B) |-> DeletedEntry(B[k])],
            {k \in 1..Len(B) : ~HasId(C, B[k]["id"])}, 1)

EntriesOf(r, id) == {k \in 1..Len(updates[r]) : updates[r][k].newItem["id"] = id}

\* C7: after the two passes, updates is the reference sequence (New and
\* Updated in the order of currentItems, then Deleted in the order of
\* oldItems); an id has at most one entry, and an id on one side only has
\* exactly one New or Deleted entry.
DeltaIsReference ==
    \A r \in Runs : Diffed(r) =>
        /\ updates[r] = RefDelta(oldItems[r], currentItems[r])
        /\ \A n \in 1..MaxId :
              LET id == Num(n)
                  inB == HasId(oldItems[r], id)
                  inC == HasId(currentItems[r], id)
              IN  /\ Cardinality(EntriesOf(r, id)) <= 1
                  /\ (inC /\ ~inB) =>
                        \E k \in EntriesOf(r, id) : updates[r][k].kind = "New"
                  /\ (inB /\ ~inC) =>
                        \E k \in EntriesOf(r, id) : updates[r][k].kind = "Deleted"

\* a delta with an entry of pass 1 followed by an entry of pass 2
DeltaWitness ==
    \E r \in Runs :
        /\ Diffed(r)
        /\ Len(updates[r]) = 2
        /\ updates[r][1].kind \in {"New", "Updated"}
        /\ updates[r][2].kind = "Deleted"

\* C10: after the two passes, shouldPingUsergroup is true exactly when the
\* delta holds a New entry, a Deleted entry, or an Updated entry that
\* shouldNotifyUsergroup reports.
PingFlagIsImportance ==
    \A r \in Runs : Diffed(r) =>
        (shouldPingUsergroup[r] <=>
            \E e \in Range(updates[r]) :
                \/ e.kind \in {"New", "Deleted"}
                \/ e.kind = "Updated" /\ shouldNotifyUsergroup(e.oldItem, e.newItem))

\* a delta of Updated entries only, none important, with the flag false
PingFlagWitness ==
    \E r \in Runs :
        /\ Diffed(r)
        /\ Len(updates[r]) = 2
        /\ \A e \in Range(updates[r]) : e.kind = "Updated"
        /\ ~shouldPingUsergroup[r]

\* the keys on which two items carry different values
DiffKeys(o, n) == {k \in Keys : Get(o, k) # Get(n, k)}

IsNumber(v) == TypeOf(v) = "number"

\* the only pair of a one-item baseline and a one-item snapshot
PairDiffed(r) == Diffed(r) /\ Len(oldItems[r]) = 1 /\ Len(currentItems[r]) = 1

\* C8: for an Updated pair that differs only in a numeric stockRemaining,
\* the classifier answers important exactly when the quantities differ by
\* more than 1; for a pair that differs only in title and/or description
\* it answers not important.
StockTolerance ==
    \A r \in Runs : PairDiffed(r) =>
        LET o == oldItems[r][1]
            n == currentItems[r][1]
            so == Get(o, "stockRemaining")
            sn == Get(n, "stockRemaining")
        IN  /\ updates[r] = <<UpdatedEntry(o, n)>>
            /\ (DiffKeys(o, n) = {"stockRemaining"} /\ IsNumber(so) /\ IsNumber(sn)) =>
                  /\ shouldNotifyUsergroup(o, n) <=> (Abs(so[2] - sn[2]) > 1)
                  /\ shouldPingUsergroup[r] <=> (Abs(so[2] - sn[2]) > 1)
            /\ (DiffKeys(o, n) \subseteq {"title", "description"}) =>
                  /\ ~shouldNotifyUsergroup(o, n)
                  /\ ~shouldPingUsergroup[r]

\* a stock change of exactly 1 that was classified not important
StockToleranceWitness ==
    \E r \in Runs :
        /\ PairDiffed(r)
        /\ DiffKeys(oldItems[r][1], currentItems[r][1]) = {"stockRemaining"}
        /\ IsNumber(Get(oldItems[r][1], "stockRemaining"))
        /\ IsNumber(Get(currentItems[r][1], "stockRemaining"))
        /\ Abs(oldItems[r][1]["stockRemaining"][2]
               - currentItems[r][1]["stockRemaining"][2]) = 1
        /\ ~shouldPingUsergroup[r]

\* C9: for an Updated pair in which some attribute other than title,
\* description and a numeric stock quantity has different values on the old
\* and the new item, present on both or on one of them only, the classifier
\* answers important.
OtherAttributeImportant ==
    \A r \in Runs : PairDiffed(r) =>
        LET o == oldItems[r][1]
            n == currentItems[r][1]
        IN  (\E k \in DiffKeys(o, n) \ {"title", "description"} :
                ~(k = "stockRemaining" /\ IsNumber(Get(o, k)) /\ IsNumber(Get(n, k))))
            => shouldPingUsergroup[r]

\* every block of the delta was accepted by Slack, and the ping was
\* answered when the flag is set
AllDelivered(r) ==
    /\ Range(allBlocks(r)) \subseteq Delivered(r)
    /\ shouldPingUsergroup[r] => \E m \in Range(sent[r]) : m.kind = "ping"

\* C1: a run that found a baseline file has written the new baseline only
\* if every chunk, and the ping when flagged, was delivered before.
WriteOnlyAfterDelivery ==
    \A r \in Runs : (found[r] = "present" /\ writes[r] > 0) => AllDelivered(r)

\* the ids whose blocks Slack accepted in run r
DeliveredIds(r) == {b[2] : b \in Delivered(r)}

\* run r holds, after relocation, the snapshot the run before it held
SameSnapshotAsPrev(r) ==
    /\ prev.relocated
    /\ found[r] # "unknown"
    /\ deepEquals(prev.cur, currentItems[r])

\* C2: when the run before failed on a chunk and this run saw the same
\* catalog and is done, this run has delivered the changes that the failed
\* run left undelivered.
FailedDeliveryIsResent ==
    \A r \in Runs :
        (/\ prev.outcome = "failed"
         /\ prev.undelivered # {}
         /\ SameSnapshotAsPrev(r)
         /\ pc[r] = "done")
        => prev.undelivered \subseteq DeliveredIds(r)

\* no delta entry: every current item has an equal baseline item of the same
\* id, and every baseline item has a current item of the same id
NoDelta(B, C) ==
    /\ \A c \in Range(C) : \E b \in Range(B) : b["id"] = c["id"] /\ deepEqualsItem(b, c)
    /\ \A b \in Range(B) : HasId(C, b["id"])

\* C3: a run whose diff yields no delta entry ends done and sends nothing.
NoDeltaEndsDone ==
    \A r \in Runs :
        (Loaded(r) /\ Ended(r) /\ NoDelta(oldItems[r], currentItems[r]))
        => (pc[r] = "done" /\ sent[r] = <<>>)

\* the URL of item is one the CDN deployed for the source image of its id
IsRelocated(item) ==
    \E v \in CdnHosts :
        item["imageUrl"] = DeployedUrl(ImageItem(item["id"][2])["imageUrl"], v)

\* C4: a run that found no baseline file sends nothing, does not fail, and
\* when done has written once: the file holds the current snapshot, with
\* relocated image URLs.
BootstrapWritesBaseline ==
    \A r \in Runs : found[r] = "absent" =>
        /\ pc[r] \in {"bootstrap", "done"}
        /\ sent[r] = <<>>
        /\ pc[r] = "bootstrap" => writes[r] = 0
        /\ pc[r] = "done" =>
              /\ writes[r] = 1
              /\ file = JsonFile(currentItems[r])
              /\ \A k \in 1..Len(file.items) :
                    "imageUrl" \in DOMAIN file.items[k] => IsRelocated(file.items[k])

\* a first sync that is done and stored an item with an image
BootstrapWitness ==
    \E r \in Runs :
        /\ found[r] = "absent"
        /\ pc[r] = "done"
        /\ \E k \in 1..Len(file.items) : "imageUrl" \in DOMAIN file.items[k]

SecondRunIsSilent ==
    \A r \in Runs : (prev.outcome # "none" /\ SameSnapshotAsPrev(r)) =>
        (sent[r] = <<>> /\ file = prev.file)

\* a second run, done, over a non-empty snapshot that the first run failed
\* to deliver
SecondRunWitness ==
    \E r \in Runs :
        /\ prev.outcome = "failed"
        /\ prev.undelivered # {}
        /\ SameSnapshotAsPrev(r)
        /\ pc[r] = "done"

\* the messages of a kind that were answered in run r, in send order
Pings(r) == {k \in 1..Len(sent[r]) : sent[r][k].kind = "ping"}
Chunks(r) == {k \in 1..Len(sent[r]) : sent[r][k].kind = "chunk"}

\* run r has come to the postMessage of line 195
PingAttempted(r) ==
    \/ pc[r] = "ping"
    \/ Pings(r) # {}
    \/ pc[r] = "failed" /\ error[r][1] = "ping"

\* C11: the ping is attempted only when shouldPingUsergroup is set and
\* every chunk was answered ok; an answered ping is the last message of its
\* run and follows a chunk; a run that is done with the flag set has sent
\* the ping, once, after the last chunk.
PingOnlyAfterAllChunks ==
    \A r \in Runs :
        /\ PingAttempted(r) =>
              /\ shouldPingUsergroup[r]
              /\ Range(allBlocks(r)) \subseteq Delivered(r)
              /\ \A k \in Chunks(r) : sent[r][k].ok
        /\ \A k \in Pings(r) : k = Len(sent[r]) /\ k - 1 \in Chunks(r)
        /\ (pc[r] = "done" /\ shouldPingUsergroup[r]) => Cardinality(Pings(r)) = 1
        /\ (pc[r] = "done" /\ ~shouldPingUsergroup[r]) => Pings(r) = {}

\* a run is done after two chunks and the ping
PingWitness ==
    \E r \in Runs :
        /\ pc[r] = "done"
        /\ shouldPingUsergroup[r]
        /\ Len(sent[r]) = 3
        /\ Pings(r) = {3}

\* the blocks of the answered chunk messages of run r, in send order
RECURSIVE ConcatBlocks(_)
ConcatBlocks(msgs) ==
    IF msgs = <<>> THEN <<>>
    ELSE (IF Head(msgs).kind = "chunk" THEN Head(msgs).blocks ELSE <<>>)
         \o ConcatBlocks(Tail(msgs))

\* the loop of line 176 of run r has ended without a throw
LoopEnded(r) ==
    /\ Len(allBlocks(r)) >= 1
    /\ \/ pc[r] \in {"ping", "done"}
       \/ pc[r] = "failed" /\ error[r][1] = "ping"

\* C12: while the loop runs, the chunks answered ok are consecutive slices
\* that make up the first `offset` blocks; no chunk is empty or longer than
\* SLACK_BLOCK_LIMIT; when the loop has ended the chunks make up allBlocks
\* and their number is ceil(n / SLACK_BLOCK_LIMIT).
ChunkingLaw ==
    \A r \in Runs :
        LET n == Len(allBlocks(r))
            c == Cardinality(Chunks(r))
        IN  /\ \A k \in Chunks(r) :
                  Len(sent[r][k].blocks) \in 1..SLACK_BLOCK_LIMIT
            /\ pc[r] = "send" =>
                  /\ offset[r] < n
                  /\ ConcatBlocks(sent[r]) = SubSeq(allBlocks(r), 1, offset[r])
            /\ LoopEnded(r) =>
                  /\ ConcatBlocks(sent[r]) = allBlocks(r)
                  /\ (c - 1) * SLACK_BLOCK_LIMIT < n
                  /\ n <= c * SLACK_BLOCK_LIMIT

\* the loop has ended after three chunks, the last one full
ChunkingWitness ==
    \E r \in Runs :
        /\ LoopEnded(r)
        /\ Cardinality(Chunks(r)) = 3
        /\ Len(allBlocks(r)) = 3 * SLACK_BLOCK_LIMIT

\* the chunk messages answered in run r are the slices of allBlocks in
\* order, and only the last answer can be a refusal
ChunksInOrder(r) ==
    \A k \in Chunks(r) :
        /\ sent[r][k].blocks = Slice(allBlocks(r), (k - 1) * SLACK_BLOCK_LIMIT)
        /\ k < Len(sent[r]) => sent[r][k].ok

\* what a step does to run r while it stands in the chunk loop
ChunkStep(r) ==
    /\ (pc[r] = "send" /\ pc'[r] \in {"send", "ping", "done"} /\ sent'[r] # sent[r]) =>
          /\ sent'[r] = Append(sent[r], ChunkMessage(r, TRUE))
          /\ offset'[r] = offset[r] + SLACK_BLOCK_LIMIT
          /\ attempt'[r] = 0
    /\ (pc[r] = "send" /\ pc'[r] = "send" /\ sent'[r] = sent[r]) =>
          /\ attempt'[r] = attempt[r] + 1
          /\ attempt'[r] < retries
          /\ offset'[r] = offset[r]
    /\ (pc[r] = "send" /\ pc'[r] = "failed" /\ sent'[r] = sent[r]) =>
          /\ attempt[r] = retries - 1
          /\ error'[r] = <<"send", retries>>
    /\ (pc[r] = "failed" /\ pc'[r] = "failed") => sent'[r] = sent[r]

\* C13: chunk k+1 is tried only after chunk k was answered ok; every chunk
\* starts at attempt 0 and fails by throwing only at its third attempt;
\* after a failed chunk nothing more is sent, no ping either, and the run
\* is failed.
ChunksInOrderOwnBudget ==
    /\ [](\A r \in Runs :
            /\ ChunksInOrder(r)
            /\ pc[r] = "send" =>
                  /\ attempt[r] \in 0..(retries - 1)
                  /\ Cardinality(Chunks(r)) * SLACK_BLOCK_LIMIT = offset[r]
                  /\ \A k \in Chunks(r) : sent[r][k].ok
            /\ ChunkFailed(r) => Pings(r) = {} /\ Undelivered(r) # {})
    /\ [][\A r \in Runs : ChunkStep(r)]_vars

\* the second chunk has thrown three times after the first was answered ok
ChunkBudgetWitness ==
    \E r \in Runs :
        /\ pc[r] = "failed"
        /\ error[r] = <<"send", retries>>
        /\ Len(sent[r]) = 1
        /\ sent[r][1].ok
        /\ Len(allBlocks(r)) > SLACK_BLOCK_LIMIT

\* the invocations of fn that threw, by attempt number
Thrown(c) == {k \in 1..Len(c.calls) : c.calls[k][1] = "throw"}

\* C14: retry(fn, n) invokes fn at most n times, one after the other; only
\* the last invocation made can have returned, and then retry has returned
\* its value; when n invocations threw, retry has thrown the error of the
\* n-th; the warnings are those of the failed attempts other than the n-th.
RetryLaw ==
    rt.state # "none" =>
        LET n == rt.retries
            made == Len(rt.calls)
        IN  /\ made <= n
            /\ rt.i = Cardinality(Thrown(rt))
            /\ \A k \in 1..made : k < made => k \in Thrown(rt)
            /\ rt.state = "loop" => Thrown(rt) = 1..made /\ made < n
            /\ rt.state = "returned" =>
                  /\ made \notin Thrown(rt)
                  /\ rt.result = Str(rt.calls[made][2])
            /\ rt.state = "threw" =>
                  /\ Thrown(rt) = 1..n
                  /\ rt.result = Str(rt.calls[n][2])
            /\ rt.warns = [k \in 1..Min(Cardinality(Thrown(rt)), n - 1) |-> k]

\* retry has thrown after three attempts that failed with different errors
RetryWitness ==
    /\ rt.state = "threw"
    /\ rt.retries = 3
    /\ rt.calls[1] # rt.calls[3]
    /\ rt.warns = <<1, 2>>

\* C15: a run is done only if every message it sent, chunk or ping, was
\* answered ok.
DoneOnlyIfEveryMessageOk ==
    \A r \in Runs :
        pc[r] = "done" => \A k \in 1..Len(sent[r]) : sent[r][k].ok

\* the process is alive and no run of it is under way
Idle == \A r \in Runs : pc[r] \in {"waiting", "done"}

\* C16: the schedule is recurring: whenever the process is alive and idle,
\* the Cron job can fire again and start a run.
ScheduleIsRecurring == Idle => ENABLED CronTick

\* the invocations of the network call on which run r failed: the ones
\* that threw, and the answered one when the answer was refused
AttemptsMade(r) ==
    IF error[r][1] \in {"cdn-not-ok", "send-not-ok"} THEN attempt[r] + 1
    ELSE attempt[r]

\* C17: a run fails on the CDN request or on a message send, by a throw or
\* by an answer that is not ok, only when that call was tried three times.
NetworkFailureIsRetried ==
    \A r \in Runs :
        (/\ pc[r] = "failed"
         /\ error[r][1] \in {"cdn", "cdn-not-ok", "send", "send-not-ok", "ping"})
        => AttemptsMade(r) = retries

\* the items that carry a non-empty image URL, and the place of item k
\* among them
ImagePositions(items) == {k \in 1..Len(items) : HasImage(items[k])}
Rank(P, k) == Cardinality({j \in P : j <= k})

\* the image URLs of those items, in snapshot order
RefBatch(items) ==
    LET P == ImagePositions(items)
    IN  [j \in 1..Cardinality(P) |->
            items[CHOOSE k \in P : Rank(P, k) = j]["imageUrl"]]

\* `after` is `before` with the image URL of every item that carries one
\* replaced by the file at the item's batch position
RefRelocated(before, after, files) ==
    LET P == ImagePositions(before)
    IN  /\ Len(after) = Len(before)
        /\ \A k \in 1..Len(before) :
              after[k] = IF k \in P
                         THEN [before[k] EXCEPT !["imageUrl"] = files[Rank(P, k)]]
                         ELSE before[k]

RelocationStep(r) ==
    /\ (pc[r] = "scrape" /\ pc'[r] = "exists") =>
          /\ uploads'[r] = <<>>
          /\ ImagePositions(currentItems'[r]) = {}
    /\ (pc[r] = "scrape" /\ pc'[r] = "cdn") =>
          /\ ImagePositions(currentItems'[r]) # {}
          /\ uploads'[r] = <<RefBatch(currentItems'[r])>>
    /\ (pc[r] = "cdn" /\ pc'[r] = "exists") =>
          \E v \in CdnHosts :
              RefRelocated(currentItems[r], currentItems'[r],
                           CdnFiles(uploads[r][1], v))
    /\ (pc[r] \notin {"waiting", "scrape", "done", "failed"}) =>
          uploads'[r] = uploads[r]

\* C18: a run whose scrape returned hands no URL list to the CDN when no
\* item has a non-empty image URL, and otherwise one list: the image URLs
\* of those items in snapshot order; the answer rewrites the image URL of
\* each such item to the file at its batch position and changes nothing
\* else; no other list follows in the run.
RelocationIsPositional ==
    /\ [](\A r \in Runs :
            /\ Len(uploads[r]) <= 1
            /\ pc[r] = "cdn" => uploads[r] = <<RefBatch(currentItems[r])>>)
    /\ [][\A r \in Runs : RelocationStep(r)]_vars

\* three items were relocated: the first carries no image, the other two
\* carry different ones
RelocationWitness ==
    \E r \in Runs :
        /\ pc[r] = "exists"
        /\ Len(currentItems[r]) = 3
        /\ ImagePositions(currentItems[r]) = {2, 3}
        /\ Len(uploads[r]) = 1
        /\ uploads[r][1][1] # uploads[r][1][2]

\* run r has read the baseline and has not yet returned or failed
InFlight(r) == pc[r] \in {"write", "send", "ping"}

\* C19: the two runs of a process are never both between the read of the
\* baseline and the end of their write and delivery, and no block of one
\* change from the same baseline is accepted by Slack from both runs.
RunsDoNotOverlap ==
    /\ ~(InFlight("immediate") /\ InFlight("cron"))
    /\ (/\ Loaded("immediate")
        /\ Loaded("cron")
        /\ oldItems["immediate"] = oldItems["cron"])
       => Delivered("immediate") \cap Delivered("cron") = {}

\* run r has started and has neither returned nor failed
Running(r) == pc[r] \notin {"waiting", "done", "failed"}

====
